---- MODULE Spec2Model ----
(***************************************************************************)
(* Session/Profile context (AuthProvider), the Login screen and the Post  *)
(* Generator of autyvia-posts-generator, as a state machine.  Every       *)
(* network call is a suspension point: the call and the handling of its   *)
(* response are separate steps, and steps of different flows interleave.  *)
(* Promise continuations that follow a response without another network   *)
(* call run in the same step (microtasks run to completion).              *)
(***************************************************************************)
EXTENDS Integers, Sequences, FiniteSets, Bags, TLC

\* ------------------------------------------------------------------ bounds
MaxChains == 2      \* load chains in flight at the same time
MaxLimit  == 2      \* largest monthly_posts_limit of the stored pack
MaxPosts  == 3      \* generated_post rows the model lets the client insert
MaxLoads  == 2      \* template queries of one screen in flight at the same time
MaxSaves  == 1      \* submissions of the Profile form

\* ------------------------------------------------------------ value spaces
NULL      == [nil |-> TRUE]
NoSession == "none"
UserIds   == {"u1", "u2"}
Routes    == {"/login", "/dashboard", "/generate", "/profile"}
GatedRoutes == {"/dashboard", "/generate", "/profile"}
AuthErrors == {[message |-> "Invalid login credentials"], [message |-> ""]}

\* rows of the backend tables `user` and `company` (one company per user)
UserRow(u)    == [id |-> u, company_id |-> IF u = "u1" THEN "c1" ELSE "c2"]
CompanyIds    == {UserRow(u).company_id : u \in UserIds}

\* a text is the sequence of its characters; " " is the blank
Blank   == " "
Massage == <<"M">>
Facial  == <<"F">>

\* the mutable fields of a company row, as a profile that was filled in
SeedProfile ==
  [name |-> "Spa", business_sector |-> "spa-beaute", services |-> <<Massage>>,
   target_audience |-> "", brand_colors |-> <<"#000000", "#ffffff">>,
   logo_url |-> NULL, tone_of_voice |-> "", visual_style |-> ""]

\* the mutable fields signUp gives the company it inserts (logo_url is not
\* given and takes the column's default)
EmptyProfile(companyName) ==
  [name |-> companyName, business_sector |-> "", services |-> <<>>,
   target_audience |-> "", brand_colors |-> <<>>,
   logo_url |-> NULL, tone_of_voice |-> "", visual_style |-> ""]

\* a row of `company`: the id and the mutable fields
RowOf(c, fields) ==
  [id |-> c, name |-> fields.name, business_sector |-> fields.business_sector,
   services |-> fields.services, target_audience |-> fields.target_audience,
   brand_colors |-> fields.brand_colors, logo_url |-> fields.logo_url,
   tone_of_voice |-> fields.tone_of_voice, visual_style |-> fields.visual_style]

\* the company row the backend holds at the start
CompanyRow(c) == RowOf(c, SeedProfile)

VARIABLES
  \* AuthProvider state
  user, company, pack, loading, mounted,
  \* backend
  session, dbPack, dbPosts, dbAuth, dbUser, dbCompany,
  \* another session of the same company: the pack it has cached
  other,
  \* flows of the context
  startup, chains, si, so, su,
  \* Login screen and routing
  route, loginError, localStorage,
  \* PostGenerator screen
  currentStep, platform, format, templates, loadingTemplates,
  selectedTemplate, userSuggestions, generating, generatedPost, gen, tl,
  \* Profile screen
  form, newService, saving, message, pf,
  \* history
  lastAct, mon, usedAtStart, unmetered

ctxVars   == <<user, company, pack, loading, mounted>>
envVars   == <<dbAuth, dbUser, dbCompany, other>>
dbVars    == <<session, dbPack, dbPosts, envVars>>
flowVars  == <<startup, chains, si, so, su>>
loginVars == <<loginError, localStorage>>
wizVars   == <<currentStep, platform, format, templates, loadingTemplates,
               selectedTemplate, userSuggestions>>
genVars   == <<generating, generatedPost, gen, tl>>
pgVars    == <<wizVars, genVars>>
profVars  == <<form, newService, saving, message, pf>>
histVars  == <<lastAct, mon, usedAtStart, unmetered>>
vars      == <<ctxVars, dbVars, flowVars, route, loginVars, pgVars, profVars, histVars>>

\* ---------------------------------------------------------------- helpers
Snapshot == <<user, company, pack>>

\* a load chain in flight: the query it awaits, the user id it was called with
\* and who called it.  chains is the bag of the chains in flight.
Chain(pc, uid, origin) == [pc |-> pc, uid |-> uid, origin |-> origin]
HasFreeSlot == BagCardinality(chains) < MaxChains
InFlight(origin) == \E c \in BagToSet(chains) : c.origin = origin

IdleSignIn == [pc |-> "idle", email |-> "-", rememberMe |-> FALSE, attached |-> TRUE,
               cleared |-> FALSE]
IdleGen    == [pc |-> "idle", pack |-> NULL, cid |-> "-", attached |-> TRUE, storedBefore |-> 0,
               resp |-> "none", inserted |-> 0]
IdleSignUp == [pc |-> "idle", email |-> "-", name |-> "-", uid |-> "-", cid |-> "-"]
IdlePf     == [pc |-> "idle", payload |-> NULL, cid |-> "-", uid |-> "-", attached |-> TRUE,
               saves |-> 0]
\* handleSubmit has returned; saves counts the submissions so far
PfDone(p)  == [IdlePf EXCEPT !.saves = p.saves]
NoItems    == [rememberMe |-> "-", rememberedEmail |-> "-"]
NoMon      == [st |-> "off", snap |-> <<>>, out |-> "-", same |-> FALSE]

\* supabase.from('user').select('*').eq('id', userId).single()
\* (fails: the request fails, e.g. the network is down)
\* .single() reports an error when no row matches
QueryUser(uid, fails) ==
  IF fails \/ dbUser[uid] = NULL THEN [data |-> NULL, error |-> TRUE]
  ELSE [data |-> dbUser[uid], error |-> FALSE]

\* supabase.from('company').select('*').eq('id', company_id).single()
QueryCompany(cid, fails) ==
  IF fails \/ dbCompany[cid] = NULL THEN [data |-> NULL, error |-> TRUE]
  ELSE [data |-> dbCompany[cid], error |-> FALSE]

\* supabase.from('pack').select('*').eq('company_id', ..).eq('status','active').single()
\* .single() reports an error when no row matches
QueryPack(cid, fails) ==
  IF fails \/ dbPack[cid] = NULL THEN [data |-> NULL, error |-> TRUE]
  ELSE IF dbPack[cid].status # "active" THEN [data |-> NULL, error |-> TRUE]
  ELSE [data |-> dbPack[cid], error |-> FALSE]

\* useEffect(() => { if (!user) navigate('/login') }, [user, navigate]) of
\* Dashboard, Profile and PostGenerator, run after the render that shows r
Gate(r, u) == IF u = NULL /\ r \in GatedRoutes THEN "/login" ELSE r

\* mutant: a screen renders its content as soon as a user is present
RendersContent_UserOnly(u, c) == u # NULL

\* the render gate of Dashboard, PostGenerator and Profile:
\* if (!user || !company) return <placeholder>; the content comes after it
RendersContent(u, c) == ~(u = NULL \/ c = NULL)

\* what the screen of route r renders with user u and company c: the Login
\* form, the content of a gated screen, the "Chargement..." placeholder of
\* Dashboard and PostGenerator, or nothing (Profile returns null)
Renders(r, u, c) ==
  IF r = "/login" THEN "login"
  ELSE IF RendersContent(u, c) THEN "content"
  ELSE IF r = "/profile" THEN "nothing"
  ELSE "Chargement..."

\* the useState initial values of PostGenerator
PGFresh ==
  /\ currentStep' = 1
  /\ platform' = ""
  /\ format' = ""
  /\ templates' = {}
  /\ loadingTemplates' = FALSE
  /\ selectedTemplate' = NULL
  /\ userSuggestions' = ""
  /\ generating' = FALSE
  /\ generatedPost' = NULL

\* String.prototype.trim on a text: the blanks at both ends are removed
RECURSIVE TrimStart(_)
TrimStart(s) == IF s # <<>> /\ Head(s) = Blank THEN TrimStart(Tail(s)) ELSE s
RECURSIVE TrimEnd(_)
TrimEnd(s) ==
  IF s # <<>> /\ s[Len(s)] = Blank THEN TrimEnd(SubSeq(s, 1, Len(s) - 1)) ELSE s
trim(s) == TrimEnd(TrimStart(s))

\* the useState initial values of the Profile form
FormInit ==
  [name |-> "", businessSector |-> "", services |-> <<>>, targetAudience |-> "",
   brandColors |-> <<"#000000", "#ffffff">>, logoUrl |-> "", toneOfVoice |-> "",
   visualStyle |-> ""]

\* the effect on [company] of Profile: the form takes the company's values
\* (company.logo_url || '': a null logo becomes the empty text)
FormOf(c) ==
  [name |-> c.name, businessSector |-> c.business_sector, services |-> c.services,
   targetAudience |-> c.target_audience, brandColors |-> c.brand_colors,
   logoUrl |-> IF c.logo_url = NULL THEN "" ELSE c.logo_url.url,
   toneOfVoice |-> c.tone_of_voice, visualStyle |-> c.visual_style]

\* mutant: the update carries the services only
PayloadOf_ServicesOnly(f) == [services |-> f.services]

\* the object Profile.handleSubmit passes to .update(...): every mutable field
\* (logoUrl || null: the empty text becomes null)
PayloadOf(f) ==
  [name |-> f.name, business_sector |-> f.businessSector, services |-> f.services,
   target_audience |-> f.targetAudience, brand_colors |-> f.brandColors,
   logo_url |-> IF f.logoUrl = "" THEN NULL ELSE [url |-> f.logoUrl],
   tone_of_voice |-> f.toneOfVoice, visual_style |-> f.visualStyle]

\* the Profile screen is mounted: its state starts from the initial values and
\* the effect on [company] runs with the company of the context
ProfMount ==
  /\ form' = IF company # NULL THEN FormOf(company) ELSE FormInit
  /\ newService' = <<>>
  /\ saving' = FALSE
  /\ message' = NULL
  /\ pf' = pf

\* the Profile screen is left: its state is gone; a save in flight goes on
ProfLeave ==
  /\ form' = FormInit
  /\ newService' = <<>>
  /\ saving' = FALSE
  /\ message' = NULL
  /\ pf' = IF pf.pc = "idle" THEN pf ELSE [pf EXCEPT !.attached = FALSE]

\* navigate(target) followed by the gate of the screen it shows, with user u
\* after this step.  A screen that is left loses its component state; calls it
\* has in flight go on and their results are discarded.
Nav(target, u) ==
  /\ route' = Gate(target, u)
  /\ IF route = "/generate" /\ Gate(target, u) # "/generate"
       THEN /\ PGFresh
            /\ tl' = {}
            /\ gen' = IF gen.pc = "idle" THEN gen ELSE [gen EXCEPT !.attached = FALSE]
       ELSE UNCHANGED pgVars
  /\ IF route = "/profile" /\ Gate(target, u) # "/profile" THEN ProfLeave
     ELSE IF route # "/profile" /\ Gate(target, u) = "/profile" THEN ProfMount
     ELSE UNCHANGED profVars
  /\ loginError' = IF route = "/login" /\ target # "/login" THEN "" ELSE loginError

\* the signIn flow of a Login screen that is left goes on without its screen
SiAfterNav(target) ==
  IF route = "/login" /\ target # "/login" /\ si.pc # "idle"
    THEN [si EXCEPT !.attached = FALSE] ELSE si

\* the signIn flow notes that the context was cleared while it awaited its chain
SiCleared == IF si.pc = "load" THEN [si EXCEPT !.cleared = TRUE] ELSE si

\* history: the step just taken, and the monitor of two refreshData calls in
\* succession (the second called after the first returned, nothing else
\* touching the backend or the context from the first call to the second
\* return).  kind "refStart"/"refStep"/"refDone": steps of a refreshData call;
\* arg of a "refDone" step: how far the chain got.
\*   mon.snap: the snapshot the earlier call left; mon.out: how far the last
\*   call that returned got; mon.same: the later call got as far as the earlier
Hist(name, arg, kind) ==
  /\ lastAct' = [name |-> name, arg |-> arg,
                 cleared |-> (name = "SignInResolve" /\ si.cleared)]
  /\ usedAtStart' = usedAtStart
  \* unmetered: some generation ran with no pack loaded, or its counter
  \* update was refused by the backend
  /\ unmetered' = \/ unmetered
                  \/ (gen.pc = "idle" /\ gen'.pc # "idle" /\ gen'.pack = NULL)
                  \/ (name = "GenEnd" /\ arg = "successUpdateFailed")
  /\ mon' =
       CASE kind = "refStart" ->
              IF chains # EmptyBag THEN NoMon
              ELSE IF mon.st \in {"done1", "done2"}
                     THEN [mon EXCEPT !.st = "run2", !.snap = Snapshot, !.same = FALSE]
              ELSE [NoMon EXCEPT !.st = "run1"]
         [] kind = "refStep" -> mon
         [] kind = "refDone" ->
              IF mon.st = "run1"
                THEN [st |-> "done1", snap |-> Snapshot', out |-> arg, same |-> FALSE]
              ELSE IF mon.st = "run2"
                THEN [mon EXCEPT !.st = "done2", !.same = (arg = mon.out), !.out = arg]
              ELSE mon
         [] OTHER ->
              IF dbVars' # dbVars \/ Snapshot' # Snapshot \/ chains' # chains
                THEN NoMon
                ELSE mon

\* ------------------------------------------------------------------- Init
\* the provider has just been mounted; the backend holds one pack, of company
\* c1, and may hold a session left by an earlier visit
\* the state after construction, with a stored pack whose limit is in limits
\* and whose posts_used is in useds
InitWith(limits, useds) ==
  /\ user = NULL /\ company = NULL /\ pack = NULL
  /\ loading = TRUE
  /\ mounted = TRUE
  /\ session \in {NoSession, "u1"}
  /\ \E l \in limits : \E n \in useds \cap (0..l) :
       /\ dbPack = [c \in CompanyIds |->
                     IF c = "c1"
                       THEN [id |-> "p1", company_id |-> "c1", monthly_posts_limit |-> l,
                             posts_used |-> n, status |-> "active"]
                       ELSE NULL]
       /\ usedAtStart = n
  /\ dbPosts = 0
  /\ dbAuth = {"u1"}
  /\ dbUser = [u \in UserIds |-> IF u = "u1" THEN UserRow(u) ELSE NULL]
  /\ dbCompany = [c \in CompanyIds |-> IF c = "c1" THEN CompanyRow(c) ELSE NULL]
  /\ other = NULL
  /\ su = IdleSignUp
  /\ form = FormInit /\ newService = <<>> /\ saving = FALSE /\ message = NULL
  /\ pf = IdlePf
  /\ startup = "pending"
  /\ chains = EmptyBag
  /\ si = IdleSignIn
  /\ so = "idle"
  /\ route = "/login"
  /\ loginError = ""
  /\ localStorage = NoItems
  /\ currentStep = 1 /\ platform = "" /\ format = "" /\ templates = {}
  /\ loadingTemplates = FALSE /\ selectedTemplate = NULL /\ userSuggestions = ""
  /\ generating = FALSE /\ generatedPost = NULL
  /\ gen = IdleGen /\ tl = {}
  /\ lastAct = [name |-> "Init", arg |-> "-", cleared |-> FALSE]
  /\ unmetered = FALSE
  /\ mon = NoMon

Init == InitWith({MaxLimit}, 0..MaxLimit)

\* ------------------------------------------------------- the load chain
\* loadUserData(userId): the call issues the user query
StartChain(uid, origin) == chains (+) SetToBag({Chain("user", uid, origin)})

\* the chain c moves on to its next query, or (pc = "end") returns
MoveChain(c, pc) ==
  IF pc = "end" THEN chains (-) SetToBag({c})
  ELSE (chains (-) SetToBag({c})) (+) SetToBag({Chain(pc, c.uid, c.origin)})

\* Login.handleSubmit after `await signIn(email, password)` resolved
LoginContinue(u) ==
  /\ localStorage' = IF si.rememberMe
                       THEN [rememberMe |-> "true", rememberedEmail |-> si.email]
                       ELSE NoItems
  /\ Nav("/dashboard", u)
  /\ si' = IdleSignIn

\* Profile.handleSubmit after `await refreshData()` returned: the success
\* message, then finally { setLoading(false) }
ProfileContinue ==
  /\ pf' = PfDone(pf)
  /\ message' = IF pf.attached THEN [type |-> "success", text |-> "Profil mis a jour"]
                 ELSE message
  /\ saving' = IF pf.attached THEN FALSE ELSE saving
  /\ UNCHANGED <<form, newService>>

\* finally { setLoading(false) }, the return of loadUserData, and the
\* continuation of the caller that awaited it; u is the user after this step
ChainEnd(c, u) ==
  /\ loading' = FALSE
  /\ chains' = MoveChain(c, "end")
  /\ CASE c.origin = "signIn" ->
            /\ LoginContinue(u)
            /\ su' = su
       [] c.origin = "signUp" ->
            /\ su' = IdleSignUp
            /\ UNCHANGED <<si, localStorage, route, loginError, pgVars, profVars>>
       [] c.origin = "profile" ->
            /\ ProfileContinue
            /\ UNCHANGED <<si, su, localStorage, route, loginError, pgVars>>
       [] OTHER ->
            UNCHANGED <<si, su, localStorage, route, loginError, pgVars, profVars>>

StepKind(c, done) ==
  IF c.origin # "refresh" THEN "other"
  ELSE IF done THEN "refDone" ELSE "refStep"

EndName(c) ==
  CASE c.origin = "signIn"  -> "SignInResolve"
    [] c.origin = "signUp"  -> "SignUpResolve"
    [] c.origin = "profile" -> "ProfileSaved"
    [] OTHER                -> "ChainEnd"

\* mutant: a failed company query empties the company of the context
CompanyAfter_ClearedOnError(r) == IF r.error THEN NULL ELSE r.data

\* mutant: the company that was fetched is never stored
CompanyAfter_NotStored(r) == company

\* what the context's company is after the company query answered r:
\* if (companyError) throw companyError; setCompany(companyData)
CompanyAfter(r) == IF r.error THEN company ELSE r.data

\* mutant: the answer of a chain is dropped once the session is gone
PackAfter_DroppedWhenSignedOut(r) ==
  IF session # NoSession /\ ~r.error /\ r.data # NULL THEN r.data ELSE pack

\* what the context's pack is after the pack query answered r:
\* if (!packError && packData) setPack(packData)
PackAfter(r) == IF ~r.error /\ r.data # NULL THEN r.data ELSE pack

\* the response of the user query
FetchUserResp(c, fails) ==
  /\ mounted /\ c.pc = "user"
  /\ UNCHANGED <<company, pack, mounted, dbVars, startup, so>>
  /\ LET r == QueryUser(c.uid, fails) IN
       IF r.error
         THEN /\ user' = user
              /\ ChainEnd(c, user)
              /\ Hist(EndName(c), "userError", StepKind(c, TRUE))
         ELSE /\ user' = r.data
              /\ IF r.data.company_id # ""
                   THEN /\ chains' = MoveChain(c, "company")
                        /\ UNCHANGED <<loading, si, su, localStorage, route, loginError,
                                       pgVars, profVars>>
                        /\ Hist("-", "-", StepKind(c, FALSE))
                   ELSE /\ ChainEnd(c, r.data)
                        /\ Hist(EndName(c), "noCompany", StepKind(c, TRUE))

\* the response of the company query, for userData.company_id
FetchCompanyResp(c, fails) ==
  /\ mounted /\ c.pc = "company"
  /\ UNCHANGED <<user, pack, mounted, dbVars, startup, so>>
  /\ LET r == QueryCompany(dbUser[c.uid].company_id, fails) IN
       IF r.error
         THEN /\ company' = CompanyAfter(r)
              /\ ChainEnd(c, user)
              /\ Hist(EndName(c), "companyError", StepKind(c, TRUE))
         ELSE /\ company' = CompanyAfter(r)
              /\ chains' = MoveChain(c, "pack")
              \* a Profile screen that is mounted takes the new company's values
              /\ form' = IF route = "/profile" THEN FormOf(company') ELSE form
              /\ UNCHANGED <<loading, si, su, localStorage, route, loginError, pgVars,
                             newService, saving, message, pf>>
              /\ Hist(IF c.origin = "profile" THEN "ProfileReloaded" ELSE "-", "-",
                      StepKind(c, FALSE))

\* the response of the pack query, for userData.company_id
FetchPackResp(c, fails) ==
  /\ mounted /\ c.pc = "pack"
  /\ UNCHANGED <<user, company, mounted, dbVars, startup, so>>
  /\ LET r == QueryPack(dbUser[c.uid].company_id, fails) IN
       /\ pack' = PackAfter(r)
       /\ ChainEnd(c, user)
       /\ Hist(EndName(c), IF r.error THEN "noPack" ELSE "pack", StepKind(c, TRUE))

\* mutant: refreshData loads the user of the backend session when none is loaded
RefreshTarget_FromSession ==
  IF user # NULL THEN user.id ELSE IF session # NoSession THEN session ELSE "-"

\* the user id refreshData loads: if (user) await loadUserData(user.id)
RefreshTarget == IF user # NULL THEN user.id ELSE "-"

\* refreshData()
RefreshData ==
  /\ mounted
  /\ UNCHANGED <<ctxVars, dbVars, startup, si, so, su, route, loginVars, pgVars, profVars>>
  /\ IF RefreshTarget # "-"
       THEN /\ HasFreeSlot
            /\ chains' = StartChain(RefreshTarget, "refresh")
            /\ Hist("RefreshData", RefreshTarget, "refStart")
       ELSE /\ chains' = chains
            /\ Hist("RefreshData", "signedOut", "other")

\* ------------------------------------------- provider mount: useEffect
\* supabase.auth.getSession().then(...)
GetSessionResolve ==
  /\ mounted /\ startup = "pending"
  /\ startup' = "done"
  /\ IF session # NoSession
       THEN /\ HasFreeSlot
            /\ chains' = StartChain(session, "startup")
            /\ loading' = loading
       ELSE /\ chains' = chains
            /\ loading' = FALSE
  /\ UNCHANGED <<user, company, pack, mounted, dbVars, si, so, su, route, loginVars,
                 pgVars, profVars>>
  /\ Hist("GetSessionResolve", IF session # NoSession THEN "session" ELSE "noSession", "other")

\* mutant: the cleanup of the effect does not release the subscription
Subscribed_NeverReleased == TRUE

\* the provider's subscription to onAuthStateChange: taken by the effect that
\* runs once on mount ([] dependencies), released by its cleanup
\* `return () => subscription.unsubscribe()`
Subscribed == mounted

\* mutant: the handler forgets setPack(null) when the session is gone
AuthNotify_KeepsPack ==
  IF ~Subscribed
    THEN /\ UNCHANGED <<ctxVars, dbVars, flowVars, route, loginVars, pgVars, profVars>>
         /\ Hist("AuthEvent", "unheard", "other")
    ELSE /\ IF session # NoSession
              THEN /\ HasFreeSlot
                   /\ chains' = StartChain(session, "notify")
                   /\ UNCHANGED <<user, company, pack, loading, si, route, loginVars,
                                  pgVars, profVars>>
              ELSE /\ user' = NULL
                   /\ company' = NULL
                   /\ pack' = pack
                   /\ loading' = FALSE
                   /\ Nav(route, NULL)
                   /\ si' = SiCleared
                   /\ UNCHANGED <<chains, localStorage>>
         /\ UNCHANGED <<mounted, dbVars, startup, so, su>>
         /\ Hist("AuthNotify", "-", "other")

\* the backend emits an auth-state event with its current session: the
\* onAuthStateChange callback runs if the provider is subscribed
AuthNotify ==
  IF ~Subscribed
    THEN /\ UNCHANGED <<ctxVars, dbVars, flowVars, route, loginVars, pgVars, profVars>>
         /\ Hist("AuthEvent", "unheard", "other")
    ELSE /\ IF session # NoSession
              THEN /\ HasFreeSlot
                   /\ chains' = StartChain(session, "notify")
                   /\ UNCHANGED <<user, company, pack, loading, si, route, loginVars,
                                  pgVars, profVars>>
              ELSE /\ user' = NULL
                   /\ company' = NULL
                   /\ pack' = NULL
                   /\ loading' = FALSE
                   /\ Nav(route, NULL)
                   /\ si' = SiCleared
                   /\ UNCHANGED <<chains, localStorage>>
         /\ UNCHANGED <<mounted, dbVars, startup, so, su>>
         /\ Hist("AuthNotify", "-", "other")

\* return () => subscription.unsubscribe(): the provider is torn down and the
\* state of every component goes with it
Unmount ==
  /\ mounted
  /\ mounted' = FALSE
  /\ user' = NULL /\ company' = NULL /\ pack' = NULL /\ loading' = FALSE
  /\ startup' = "done" /\ chains' = EmptyBag /\ si' = IdleSignIn /\ so' = "idle"
  /\ su' = IdleSignUp
  /\ form' = FormInit /\ newService' = <<>> /\ saving' = FALSE /\ message' = NULL
  /\ pf' = IdlePf
  /\ route' = "/login" /\ loginError' = ""
  /\ PGFresh /\ gen' = IdleGen /\ tl' = {}
  /\ UNCHANGED <<dbVars, localStorage>>
  /\ Hist("Unmount", "-", "other")

\* ------------------------------------------------------ signIn and Login
\* Login.handleSubmit up to the signInWithPassword call
LoginSubmit(u, remember) ==
  /\ mounted /\ route = "/login" /\ si.pc = "idle"
  /\ loginError' = ""
  /\ si' = [IdleSignIn EXCEPT !.pc = "auth", !.email = u, !.rememberMe = remember]
  /\ UNCHANGED <<ctxVars, dbVars, startup, chains, so, su, route, localStorage, pgVars,
                 profVars>>
  /\ Hist("-", "-", "other")

\* signInWithPassword accepted the credentials: signIn goes on to loadUserData
SignInAuthOK ==
  /\ mounted /\ si.pc = "auth"
  /\ HasFreeSlot
  /\ session' = si.email
  /\ chains' = StartChain(si.email, "signIn")
  /\ si' = [si EXCEPT !.pc = "load"]
  /\ UNCHANGED <<ctxVars, dbPack, dbPosts, envVars, startup, so, su, route, loginVars,
                 pgVars, profVars>>
  /\ Hist("-", "-", "other")

\* mutant: signIn wraps the backend's error in one of its own
SignInThrow_Wrapped(error) == [message |-> "Sign in failed"]

\* what signIn throws when signInWithPassword reports `error`
SignInThrow(error) == error

\* signInWithPassword rejected the credentials: if (error) throw error, then
\* Login's catch: setError(err.message || 'Erreur de connexion')
SignInReject(error) ==
  /\ mounted /\ si.pc = "auth"
  /\ LET err == SignInThrow(error) IN
       loginError' = IF ~si.attached THEN loginError
                     ELSE IF err.message # "" THEN err.message
                     ELSE "Erreur de connexion"
  /\ si' = IdleSignIn
  /\ UNCHANGED <<ctxVars, dbVars, startup, chains, so, su, route, localStorage, pgVars,
                 profVars>>
  /\ Hist("SignInReject", error.message, "other")

\* ---------------------------------------------------------------- signOut
\* the sign-out button of Dashboard, Profile or PostGenerator
SignOutCall ==
  /\ mounted /\ route \in GatedRoutes /\ RendersContent(user, company)
  /\ so = "idle"
  /\ so' = "wait"
  /\ UNCHANGED <<ctxVars, dbVars, startup, chains, si, su, route, loginVars, pgVars,
                 profVars>>
  /\ Hist("-", "-", "other")

\* mutant: the context is only cleared when the backend call succeeded
SignOutClears_OnlyOnSuccess(ok) == IF ok THEN <<NULL, NULL, NULL>> ELSE <<user, company, pack>>

\* the entities signOut leaves in the context once the backend call returned
\* (ok or not): setUser(null); setCompany(null); setPack(null)
SignOutClears(ok) == <<NULL, NULL, NULL>>

\* await supabase.auth.signOut() returned; its error, if any, is not looked at
SignOutResp(ok) ==
  /\ mounted /\ so = "wait"
  /\ so' = "idle"
  /\ session' = IF ok THEN NoSession ELSE session
  /\ user' = SignOutClears(ok)[1]
  /\ company' = SignOutClears(ok)[2]
  /\ pack' = SignOutClears(ok)[3]
  /\ Nav(route, user')
  /\ si' = SiCleared
  /\ UNCHANGED <<loading, mounted, dbPack, dbPosts, envVars, startup, chains, su,
                 localStorage>>
  /\ Hist("SignOutResp", IF ok THEN "ok" ELSE "error", "other")

\* ------------------------------------------------- routing and environment
\* the user moves to another screen (a link, a button or the address bar);
\* "Redirect": the gate of the screen that was mounted navigated to /login
Navigate(r) ==
  /\ mounted /\ r # route
  /\ Nav(r, user)
  /\ si' = SiAfterNav(r)
  /\ UNCHANGED <<ctxVars, dbVars, startup, chains, so, su, localStorage>>
  /\ Hist(IF Gate(r, user) # r THEN "Redirect" ELSE "-", "-", "other")

\* the billing side ends the pack: its status is no longer 'active'
PackExpire(c) ==
  /\ mounted /\ dbPack[c] # NULL /\ dbPack[c].status = "active"
  /\ dbPack' = [dbPack EXCEPT ![c].status = "expired"]
  /\ UNCHANGED <<ctxVars, session, dbPosts, envVars, flowVars, route, loginVars, pgVars,
                 profVars>>
  /\ Hist("-", "-", "other")

\* the session ends on the backend (expiry, sign-out from another tab)
SessionExpire ==
  /\ mounted /\ session # NoSession
  /\ session' = NoSession
  /\ UNCHANGED <<ctxVars, dbPack, dbPosts, envVars, flowVars, route, loginVars, pgVars,
                 profVars>>
  /\ Hist("-", "-", "other")

\* the context, the Login screen and the backend's session
NextAuth ==
  \/ GetSessionResolve
  \/ AuthNotify
  \/ \E c \in BagToSet(chains) : \E fails \in BOOLEAN : FetchUserResp(c, fails)
  \/ \E c \in BagToSet(chains) : \E fails \in BOOLEAN : FetchCompanyResp(c, fails)
  \/ \E c \in BagToSet(chains) : \E fails \in BOOLEAN : FetchPackResp(c, fails)
  \/ \E r \in BOOLEAN : LoginSubmit("u1", r)
  \/ SignInAuthOK
  \/ \E e \in AuthErrors : SignInReject(e)
  \/ SignOutCall
  \/ \E ok \in BOOLEAN : SignOutResp(ok)
  \/ \E r \in {"/login", "/dashboard"} : Navigate(r)
  \/ SessionExpire
  \/ Unmount

SpecAuth == Init /\ [][NextAuth]_vars

\* -------------------------------------------------------- PostGenerator
platforms == {"instagram", "facebook", "linkedin"}
formats   == {"post", "story", "carousel"}

\* rows of the backend table `template`
TemplateRows ==
  { [id |-> "t1", platforms |-> {"instagram"}, formats |-> {"story"}, is_active |-> TRUE],
    [id |-> "t2", platforms |-> {"instagram", "facebook"}, formats |-> {"post", "story"},
     is_active |-> TRUE],
    [id |-> "t3", platforms |-> {"instagram"}, formats |-> {"story"}, is_active |-> FALSE] }

\* what the generation webhook answers with a 2xx status
PostData == [image_url |-> "img", caption |-> "caption", hashtags |-> <<"tag">>]

\* the PostGenerator screen shows its content: route /generate, and not the
\* placeholder of `if (!user || !company)`
PGShown == mounted /\ route = "/generate" /\ RendersContent(user, company)

\* .eq('is_active', true).contains('platforms', [p]).contains('formats', [f])
QueryTemplates(p, f) ==
  {t \in TemplateRows : t.is_active /\ p \in t.platforms /\ f \in t.formats}

\* the effect on [currentStep, platform, format] calls loadTemplates() once
\* step 2 is shown: setLoadingTemplates(true) and the template query, for the
\* platform and format of that render.  tl: the template queries in flight
\* (an earlier call's query may still be on its way)
EnterStep2 ==
  /\ Cardinality(tl \cup {[platform |-> platform, format |-> format]}) <= MaxLoads
  /\ currentStep' = 2
  /\ loadingTemplates' = TRUE
  /\ tl' = tl \cup {[platform |-> platform, format |-> format]}

OtherVars == <<ctxVars, dbVars, flowVars, route, loginVars, profVars>>

\* step 1: a platform button
SetPlatform(p) ==
  /\ PGShown /\ currentStep = 1
  /\ platform' = p
  /\ UNCHANGED <<OtherVars, currentStep, format, templates, loadingTemplates,
                 selectedTemplate, userSuggestions, genVars>>
  /\ Hist("-", "-", "other")

\* step 1: a format button
SetFormat(f) ==
  /\ PGShown /\ currentStep = 1
  /\ format' = f
  /\ UNCHANGED <<OtherVars, currentStep, platform, templates, loadingTemplates,
                 selectedTemplate, userSuggestions, genVars>>
  /\ Hist("-", "-", "other")

\* step 1: "Continuer", disabled={!platform || !format}
Step1Continue ==
  /\ PGShown /\ currentStep = 1
  /\ platform # "" /\ format # ""
  /\ EnterStep2
  /\ UNCHANGED <<OtherVars, platform, format, templates, selectedTemplate,
                 userSuggestions, generating, generatedPost, gen>>
  /\ Hist("-", "-", "other")

\* the template query q of a loadTemplates call answered:
\* setTemplates(data || []), or setTemplates([]) in the catch block, then
\* finally { setLoadingTemplates(false) }
TemplatesResp(q, fails) ==
  /\ mounted /\ q \in tl
  /\ templates' = IF fails THEN {} ELSE QueryTemplates(q.platform, q.format)
  /\ loadingTemplates' = FALSE
  /\ tl' = tl \ {q}
  /\ UNCHANGED <<OtherVars, currentStep, platform, format, selectedTemplate,
                 userSuggestions, generating, generatedPost, gen>>
  /\ Hist("TemplatesResp", IF fails THEN "error" ELSE "ok", "other")

\* step 2: a template card (shown once the templates are loaded)
SelectTemplate(t) ==
  /\ PGShown /\ currentStep = 2 /\ ~loadingTemplates
  /\ t \in templates
  /\ selectedTemplate' = t
  /\ UNCHANGED <<OtherVars, currentStep, platform, format, templates, loadingTemplates,
                 userSuggestions, genVars>>
  /\ Hist("-", "-", "other")

\* step 2: "Retour"
Step2Back ==
  /\ PGShown /\ currentStep = 2 /\ ~loadingTemplates
  /\ currentStep' = 1
  /\ UNCHANGED <<OtherVars, platform, format, templates, loadingTemplates,
                 selectedTemplate, userSuggestions, genVars>>
  /\ Hist("-", "-", "other")

\* step 2: "Continuer", shown with a non-empty list, disabled={!selectedTemplate}
Step2Continue ==
  /\ PGShown /\ currentStep = 2 /\ ~loadingTemplates
  /\ templates # {} /\ selectedTemplate # NULL
  /\ currentStep' = 3
  /\ UNCHANGED <<OtherVars, platform, format, templates, loadingTemplates,
                 selectedTemplate, userSuggestions, genVars>>
  /\ Hist("-", "-", "other")

\* step 3: "Retour" (step 3 is shown while currentStep === 3 && !generatedPost)
Step3Back ==
  /\ PGShown /\ currentStep = 3 /\ generatedPost = NULL
  /\ EnterStep2
  /\ UNCHANGED <<OtherVars, platform, format, templates, selectedTemplate,
                 userSuggestions, generating, generatedPost, gen>>
  /\ Hist("-", "-", "other")

\* mutant: the check lets the boundary value posts_used = limit through
QuotaReached_StrictlyOver(p) == p # NULL /\ p.posts_used > p.monthly_posts_limit

\* the quota check of handleGenerate on the pack of the context
QuotaReached(p) == p # NULL /\ p.posts_used >= p.monthly_posts_limit

\* step 3: "Générer le post", disabled={generating}: handleGenerate up to the
\* webhook call.  The model runs one generation at a time and inserts at most
\* MaxPosts rows.
HandleGenerate ==
  /\ PGShown /\ currentStep = 3 /\ generatedPost = NULL /\ ~generating
  /\ gen.pc = "idle" /\ dbPosts < MaxPosts
  /\ UNCHANGED <<OtherVars, wizVars, generatedPost, tl>>
  /\ IF company = NULL \/ selectedTemplate = NULL
       THEN /\ UNCHANGED <<generating, gen>>
            /\ Hist("HandleGenerate", "return", "other")
       ELSE IF QuotaReached(pack)
         THEN /\ UNCHANGED <<generating, gen>>
              /\ Hist("HandleGenerate", "limitAlert", "other")
         ELSE /\ generating' = TRUE
              /\ gen' = [pc |-> "webhook", pack |-> pack, cid |-> company.id,
                         attached |-> TRUE,
                         storedBefore |-> IF pack = NULL THEN 0
                                          ELSE dbPack[pack.company_id].posts_used,
                         resp |-> "none", inserted |-> 0]
              /\ Hist("HandleGenerate", "webhook", "other")

\* mutant: setGenerating(false) only runs at the end of the try block
GeneratingAtEnd_StuckOnFailure(post) == post = NULL

\* finally { setGenerating(false) }: generating after an attempt that ended
\* with the post it displays, or with none (a failure)
GeneratingAtEnd(post) == FALSE

\* the end of handleGenerate: catch { alert(...) } on a failure, and
\* finally { setGenerating(false) }; post is what setGeneratedPost received
GenEnd(post) ==
  /\ gen' = IdleGen
  /\ generating' = IF gen.attached THEN GeneratingAtEnd(post) ELSE generating
  /\ generatedPost' = IF gen.attached /\ post # NULL THEN post ELSE generatedPost

\* mutant: the status of the webhook's response is not looked at
AfterWebhook_IgnoresStatus(ok) == "insert"

\* what follows the webhook's response: if (!response.ok) throw new Error(...)
AfterWebhook(ok) == IF ok THEN "insert" ELSE "catch"

\* the webhook answered (ok: with a 2xx status); then the insert.
\* gen.resp: the answer this attempt got; gen.inserted: the rows it inserted
WebhookResp(ok) ==
  /\ mounted /\ gen.pc = "webhook"
  /\ UNCHANGED <<OtherVars, wizVars, tl>>
  /\ IF AfterWebhook(ok) = "insert"
       THEN /\ gen' = [gen EXCEPT !.pc = "insert", !.resp = IF ok THEN "ok" ELSE "ko"]
            /\ UNCHANGED <<generating, generatedPost>>
            /\ Hist("-", "-", "other")
       ELSE /\ GenEnd(NULL)
            /\ Hist("GenEnd", "failureAlert", "other")

\* the insert into generated_post answered: if (insertError) throw insertError;
\* then, if (pack), the update of pack.posts_used
InsertResp(ok) ==
  /\ mounted /\ gen.pc = "insert"
  /\ UNCHANGED <<ctxVars, session, dbPack, envVars, flowVars, route, loginVars, profVars,
                 wizVars, tl>>
  /\ IF ~ok
       THEN /\ dbPosts' = dbPosts
            /\ GenEnd(NULL)
            /\ Hist("GenEnd", "failureAlert", "other")
       ELSE /\ dbPosts' = dbPosts + 1
            /\ IF gen.pack # NULL
                 THEN /\ gen' = [gen EXCEPT !.pc = "update", !.inserted = 1]
                      /\ UNCHANGED <<generating, generatedPost>>
                      /\ Hist("-", "-", "other")
                 ELSE /\ GenEnd(PostData)
                      /\ Hist("GenEnd", "success", "other")

\* mutant: the row inserted in step 3 is deleted when the update fails
PostsAfterUpdate_Compensated(ok) == IF ok THEN dbPosts ELSE dbPosts - 1

\* the generated_post rows after the answer of the update: handleGenerate
\* issues no other call on the table, whatever the answer
PostsAfterUpdate(ok) == dbPosts

\* mutant: the update increments the stored counter
UsedAfter_FromStoredRow(p) == dbPack[p.company_id].posts_used + 1

\* the value handleGenerate writes: .update({ posts_used: pack.posts_used + 1 })
\* with the pack of the render in which the button was clicked
UsedAfter(p) == p.posts_used + 1

\* the update of the pack row .eq('id', pack.id) answered; the `error` it
\* returns is not looked at; then setGeneratedPost(...)
UpdateResp(ok) ==
  /\ mounted /\ gen.pc = "update"
  /\ UNCHANGED <<ctxVars, session, envVars, flowVars, route, loginVars, profVars,
                 wizVars, tl>>
  /\ dbPosts' = PostsAfterUpdate(ok)
  /\ dbPack' = IF ok
                 THEN [dbPack EXCEPT ![gen.pack.company_id].posts_used = UsedAfter(gen.pack)]
                 ELSE dbPack
  /\ GenEnd(PostData)
  /\ Hist("GenEnd", IF ok THEN "success" ELSE "successUpdateFailed", "other")

\* step 3: the suggestions text area
SetUserSuggestions(t) ==
  /\ PGShown /\ currentStep = 3 /\ generatedPost = NULL
  /\ t # userSuggestions
  /\ userSuggestions' = t
  /\ UNCHANGED <<OtherVars, currentStep, platform, format, templates, loadingTemplates,
                 selectedTemplate, genVars>>
  /\ Hist("-", "-", "other")

\* mutant: the reset goes back to step 1 and keeps the template and the
\* suggestions
resetGenerator_KeepsTemplate ==
  /\ PGShown /\ generatedPost # NULL
  /\ currentStep' = 1
  /\ platform' = ""
  /\ format' = ""
  /\ generatedPost' = NULL
  /\ UNCHANGED <<OtherVars, templates, loadingTemplates, selectedTemplate,
                 userSuggestions, generating, gen, tl>>
  /\ Hist("resetGenerator", "-", "other")

\* "Générer un nouveau post" of the result view
resetGenerator ==
  /\ PGShown /\ generatedPost # NULL
  /\ currentStep' = 1
  /\ platform' = ""
  /\ format' = ""
  /\ selectedTemplate' = NULL
  /\ userSuggestions' = ""
  /\ generatedPost' = NULL
  /\ UNCHANGED <<OtherVars, templates, loadingTemplates, generating, gen, tl>>
  /\ Hist("resetGenerator", "-", "other")

\* one session that is restored at startup and works in the Post Generator
NextGen ==
  \/ GetSessionResolve
  \/ \E c \in BagToSet(chains) : \E fails \in BOOLEAN : FetchUserResp(c, fails)
  \/ \E c \in BagToSet(chains) : \E fails \in BOOLEAN : FetchCompanyResp(c, fails)
  \/ \E c \in BagToSet(chains) : \E fails \in BOOLEAN : FetchPackResp(c, fails)
  \/ \E r \in {"/dashboard", "/generate"} : Navigate(r)
  \* two platforms and two formats are chosen from: their four template
  \* queries answer with three different lists, one of them empty
  \/ \E p \in platforms \ {"facebook"} : SetPlatform(p)
  \/ \E f \in formats \ {"carousel"} : SetFormat(f)
  \/ Step1Continue
  \/ \E q \in tl : \E fails \in BOOLEAN : TemplatesResp(q, fails)
  \/ \E t \in TemplateRows : SelectTemplate(t)
  \/ Step2Back
  \/ Step2Continue
  \/ Step3Back
  \/ HandleGenerate
  \/ \E ok \in BOOLEAN : WebhookResp(ok)
  \/ \E ok \in BOOLEAN : InsertResp(ok)
  \/ \E ok \in BOOLEAN : UpdateResp(ok)
  \/ resetGenerator

SpecGen == Init /\ [][NextGen]_vars

\* the context of a restored session, refreshed by its screens
NextRefresh ==
  \/ GetSessionResolve
  \/ \E c \in BagToSet(chains) : \E fails \in BOOLEAN : FetchUserResp(c, fails)
  \/ \E c \in BagToSet(chains) : \E fails \in BOOLEAN : FetchCompanyResp(c, fails)
  \/ \E c \in BagToSet(chains) : \E fails \in BOOLEAN : FetchPackResp(c, fails)
  \/ RefreshData
  \/ \E c \in CompanyIds : PackExpire(c)

SpecRefresh == Init /\ [][NextRefresh]_vars

\* ---------------------------------------------------------------- signUp
\* the id the backend gives the company row it inserts next
HasNewCompanyId == \E c \in CompanyIds : dbCompany[c] = NULL
NewCompanyId    == CHOOSE c \in CompanyIds : dbCompany[c] = NULL

\* the user row signUp inserts: id: userId, ..., company_id: companyId
NewUserRow(userId, companyId) == [id |-> userId, company_id |-> companyId]

\* signUp(email, password, firstName, lastName, companyName) up to the
\* supabase.auth.signUp call
SignUpCall(email, companyName) ==
  /\ mounted /\ su.pc = "idle"
  /\ su' = [IdleSignUp EXCEPT !.pc = "auth", !.email = email, !.name = companyName]
  /\ UNCHANGED <<ctxVars, dbVars, startup, chains, si, so, route, loginVars, pgVars,
                 profVars>>
  /\ Hist("-", "-", "other")

\* supabase.auth.signUp answered: "authError" (if (authError) throw authError),
\* "noUser" (throw new Error('No user returned from signup')) or "user": the
\* identity is created, its id is the email's; signedIn: the backend opens a
\* session for it at once (no e-mail confirmation).  An e-mail that has an
\* identity is refused.
SignUpAuthResp(outcome, signedIn) ==
  /\ mounted /\ su.pc = "auth"
  /\ outcome = "user" => su.email \notin dbAuth
  /\ UNCHANGED <<ctxVars, dbPack, dbPosts, dbUser, dbCompany, other, startup, chains,
                 si, so, route, loginVars, pgVars, profVars>>
  /\ IF outcome = "user"
       THEN /\ dbAuth' = dbAuth \cup {su.email}
            /\ session' = IF signedIn THEN su.email ELSE session
            /\ su' = [su EXCEPT !.pc = "company", !.uid = su.email]
            /\ Hist("-", "-", "other")
       ELSE /\ UNCHANGED <<dbAuth, session>>
            /\ su' = IdleSignUp
            /\ Hist("SignUpReject", outcome, "other")

\* the company insert answered: "row" (inserted and returned), "error" (not
\* inserted) or "errorAfterInsert" (inserted, but .select().single() reports an
\* error): if (companyError) throw companyError
SignUpCompanyResp(outcome) ==
  /\ mounted /\ su.pc = "company"
  /\ outcome # "error" => HasNewCompanyId
  /\ UNCHANGED <<ctxVars, session, dbPack, dbPosts, dbAuth, dbUser, other, startup,
                 chains, si, so, route, loginVars, pgVars, profVars>>
  /\ dbCompany' = IF outcome = "error" THEN dbCompany
                  ELSE [dbCompany EXCEPT
                          ![NewCompanyId] = RowOf(NewCompanyId, EmptyProfile(su.name))]
  /\ IF outcome = "row"
       THEN /\ su' = [su EXCEPT !.pc = "user", !.cid = NewCompanyId]
            /\ Hist("-", "-", "other")
       ELSE /\ su' = IdleSignUp
            /\ Hist("SignUpReject", "companyError", "other")

\* mutant: the company row is deleted again when the user insert fails
CompanyTableAfterUserError_RolledBack(cid) == [dbCompany EXCEPT ![cid] = NULL]

\* the company table once the user insert failed:
\* catch (error) { throw error }, nothing is cleaned up
CompanyTableAfterUserError(cid) == dbCompany

\* the user insert answered: if (userError) throw userError; then
\* await loadUserData(userId)
SignUpUserResp(ok) ==
  /\ mounted /\ su.pc = "user"
  /\ UNCHANGED <<ctxVars, session, dbPack, dbPosts, dbAuth, other, startup, si, so,
                 route, loginVars, pgVars, profVars>>
  /\ IF ok
       THEN /\ HasFreeSlot /\ dbUser[su.uid] = NULL
            /\ dbUser' = [dbUser EXCEPT ![su.uid] = NewUserRow(su.uid, su.cid)]
            /\ dbCompany' = dbCompany
            /\ chains' = StartChain(su.uid, "signUp")
            /\ su' = [su EXCEPT !.pc = "load"]
            /\ Hist("-", "-", "other")
       ELSE /\ dbUser' = dbUser
            /\ dbCompany' = CompanyTableAfterUserError(su.cid)
            /\ chains' = chains
            /\ su' = IdleSignUp
            /\ Hist("SignUpReject", "userError", "other")

CompanyNames == {"Zen"}

\* the context with sign-ups, on a backend that may hold a session
NextSignUp ==
  \/ GetSessionResolve
  \/ AuthNotify
  \/ \E c \in BagToSet(chains) : \E fails \in BOOLEAN : FetchUserResp(c, fails)
  \/ \E c \in BagToSet(chains) : \E fails \in BOOLEAN : FetchCompanyResp(c, fails)
  \/ \E c \in BagToSet(chains) : \E fails \in BOOLEAN : FetchPackResp(c, fails)
  \/ \E e \in UserIds : \E n \in CompanyNames : SignUpCall(e, n)
  \/ \E o \in {"user", "authError", "noUser"} : \E s \in BOOLEAN : SignUpAuthResp(o, s)
  \/ \E o \in {"row", "error", "errorAfterInsert"} : SignUpCompanyResp(o)
  \/ \E ok \in BOOLEAN : SignUpUserResp(ok)

SpecSignUp == Init /\ [][NextSignUp]_vars

\* ------------------------------------------------------ another session
\* A second client of company c1 runs the same code in another browser; of its
\* state only the pack its context holds matters here.
\* the pack step of one of its load chains:
\* if (!packError && packData) setPack(packData)
OtherLoadPack ==
  /\ mounted
  /\ LET r == QueryPack("c1", FALSE) IN
       other' = IF ~r.error /\ r.data # NULL THEN r.data ELSE other
  /\ other' # other
  /\ UNCHANGED <<ctxVars, session, dbPack, dbPosts, dbAuth, dbUser, dbCompany, flowVars,
                 route, loginVars, pgVars, profVars>>
  /\ Hist("-", "-", "other")

\* one of its handleGenerate calls whose webhook call, insert and update all
\* succeed: the quota check and the value written use the pack it has cached
OtherGenerate ==
  /\ mounted /\ other # NULL /\ ~QuotaReached(other)
  /\ dbPosts < MaxPosts
  /\ dbPosts' = dbPosts + 1
  /\ dbPack' = [dbPack EXCEPT ![other.company_id].posts_used = UsedAfter(other)]
  /\ UNCHANGED <<ctxVars, session, dbAuth, dbUser, dbCompany, other, flowVars,
                 route, loginVars, pgVars, profVars>>
  /\ Hist("OtherGenerate", "-", "other")

\* two sessions of company c1 that generate posts, every backend call succeeding
NextSessions ==
  \/ GetSessionResolve
  \/ \E c \in BagToSet(chains) : FetchUserResp(c, FALSE)
  \/ \E c \in BagToSet(chains) : FetchCompanyResp(c, FALSE)
  \/ \E c \in BagToSet(chains) : FetchPackResp(c, FALSE)
  \/ Navigate("/generate")
  \/ SetPlatform("instagram")
  \/ SetFormat("story")
  \/ Step1Continue
  \/ \E q \in tl : TemplatesResp(q, FALSE)
  \/ \E t \in TemplateRows : SelectTemplate(t)
  \/ Step2Continue
  \/ HandleGenerate
  \/ WebhookResp(TRUE)
  \/ InsertResp(TRUE)
  \/ UpdateResp(TRUE)
  \/ resetGenerator
  \/ OtherLoadPack
  \/ OtherGenerate

SpecSessions == Init /\ [][NextSessions]_vars

\* ---------------------------------------------------------------- Profile
\* the Profile screen shows its form: route /profile, and not the `return null`
\* of `if (!user || !company)`
ProfShown == mounted /\ route = "/profile" /\ RendersContent(user, company)

\* what the user may type into the "new service" field
ServiceInputs == {<<Blank>>, <<Blank, "M", Blank>>, Facial}
NameInputs    == {"Spa", "Zen"}

ProfOther == <<ctxVars, dbVars, flowVars, route, loginVars, pgVars>>

Range(s) == {s[i] : i \in 1..Len(s)}

\* services.includes(x)
Includes(svcs, x) == \E i \in 1..Len(svcs) : svcs[i] = x

\* onChange of the "new service" field
SetNewService(s) ==
  /\ ProfShown /\ s # newService
  /\ newService' = s
  /\ UNCHANGED <<ProfOther, form, saving, message, pf>>
  /\ Hist("-", "-", "other")

\* mutant: a service is added without looking for it in the list
AddService_AllowsDuplicates(svcs, s) ==
  IF trim(s) # <<>> THEN Append(svcs, trim(s)) ELSE svcs

\* the list handleAddService leaves:
\* if (newService.trim() && !services.includes(newService.trim()))
\*   setServices([...services, newService.trim()])
AddService(svcs, s) ==
  IF trim(s) # <<>> /\ ~Includes(svcs, trim(s)) THEN Append(svcs, trim(s)) ELSE svcs

\* "Ajouter", or Enter in the field; setNewService('') when a service was added
handleAddService ==
  /\ ProfShown
  /\ form' = [form EXCEPT !.services = AddService(form.services, newService)]
  /\ newService' = IF form' # form THEN <<>> ELSE newService
  /\ UNCHANGED <<ProfOther, saving, message, pf>>
  /\ Hist("handleAddService", "-", "other")

\* services.filter(s => s !== serviceToRemove)
RemoveService(svcs, serviceToRemove) == SelectSeq(svcs, LAMBDA s : s # serviceToRemove)

\* the "x" button of a service of the list
handleRemoveService(serviceToRemove) ==
  /\ ProfShown /\ serviceToRemove \in Range(form.services)
  /\ form' = [form EXCEPT !.services = RemoveService(form.services, serviceToRemove)]
  /\ UNCHANGED <<ProfOther, newService, saving, message, pf>>
  /\ Hist("handleRemoveService", "-", "other")

\* onChange of the company name field
SetName(n) ==
  /\ ProfShown /\ n # form.name
  /\ form' = [form EXCEPT !.name = n]
  /\ UNCHANGED <<ProfOther, newService, saving, message, pf>>
  /\ Hist("-", "-", "other")

\* the submit button, disabled={loading}; the name and the sector are
\* `required` fields.  handleSubmit up to the update call; company and user
\* are those of the render in which the form is submitted.  The model runs
\* one save at a time, and MaxSaves of them.
handleSubmit ==
  /\ ProfShown /\ ~saving /\ pf.pc = "idle" /\ pf.saves < MaxSaves
  /\ form.name # "" /\ form.businessSector # ""
  /\ saving' = TRUE
  /\ message' = NULL
  /\ pf' = [pc |-> "update", payload |-> PayloadOf(form), cid |-> company.id,
            uid |-> user.id, attached |-> TRUE, saves |-> pf.saves + 1]
  /\ UNCHANGED <<ProfOther, form, newService>>
  /\ Hist("handleSubmit", "-", "other")

\* .update(payload).eq('id', cid): the row takes the columns of the payload
Patch(row, payload) ==
  [k \in DOMAIN row |-> IF k \in DOMAIN payload THEN payload[k] ELSE row[k]]

\* the update answered.  if (error) throw error: the catch block sets the error
\* message; otherwise await refreshData(), which loads the user of pf.uid
ProfileUpdateResp(ok) ==
  /\ mounted /\ pf.pc = "update"
  /\ UNCHANGED <<ctxVars, session, dbPack, dbPosts, dbAuth, dbUser, other, startup, si,
                 so, su, route, loginVars, pgVars, form, newService>>
  /\ IF ok
       THEN /\ HasFreeSlot
            /\ dbCompany' = IF dbCompany[pf.cid] = NULL THEN dbCompany
                            ELSE [dbCompany EXCEPT ![pf.cid] = Patch(@, pf.payload)]
            /\ chains' = StartChain(pf.uid, "profile")
            /\ pf' = [pf EXCEPT !.pc = "refresh"]
            /\ UNCHANGED <<saving, message>>
            /\ Hist("ProfileUpdate", "ok", "other")
       ELSE /\ UNCHANGED <<dbCompany, chains>>
            /\ pf' = PfDone(pf)
            /\ message' = IF pf.attached
                            THEN [type |-> "error", text |-> "Erreur lors de la mise a jour"]
                            ELSE message
            /\ saving' = IF pf.attached THEN FALSE ELSE saving
            /\ Hist("ProfileUpdate", "error", "other")

\* a restored session that edits and saves its company profile
NextProfile ==
  \/ GetSessionResolve
  \/ \E c \in BagToSet(chains) : \E fails \in BOOLEAN : FetchUserResp(c, fails)
  \/ \E c \in BagToSet(chains) : \E fails \in BOOLEAN : FetchCompanyResp(c, fails)
  \/ \E c \in BagToSet(chains) : FetchPackResp(c, FALSE)
  \/ \E r \in {"/dashboard", "/profile"} : Navigate(r)
  \/ \E s \in ServiceInputs : SetNewService(s)
  \/ handleAddService
  \/ \E s \in Range(form.services) : handleRemoveService(s)
  \/ \E n \in NameInputs : SetName(n)
  \/ handleSubmit
  \/ \E ok \in BOOLEAN : ProfileUpdateResp(ok)

\* (the pack plays no part on the Profile screen: one stored pack, unused)
SpecProfile == InitWith({MaxLimit}, {0}) /\ [][NextProfile]_vars

\* ---------------------------------------------------------------- screens
\* a restored session that moves between the four screens, types into the
\* content of PostGenerator and of Profile, signs out and loses its session
NextScreens ==
  \/ GetSessionResolve
  \/ AuthNotify
  \/ \E c \in BagToSet(chains) : \E fails \in BOOLEAN : FetchUserResp(c, fails)
  \/ \E c \in BagToSet(chains) : \E fails \in BOOLEAN : FetchCompanyResp(c, fails)
  \/ \E c \in BagToSet(chains) : \E fails \in BOOLEAN : FetchPackResp(c, fails)
  \/ SignOutCall
  \/ \E ok \in BOOLEAN : SignOutResp(ok)
  \/ SessionExpire
  \/ \E r \in Routes : Navigate(r)
  \/ SetPlatform("instagram")
  \/ SetNewService(Facial)

SpecScreens == Init /\ [][NextScreens]_vars

\* -------------------------------------------------------------- Dashboard
\* x || d of JavaScript on a number: 0 is falsy
OrElse(x, d) == IF x = 0 THEN d ELSE x

\* const postsUsed = pack?.posts_used || 0
postsUsed(p) == IF p = NULL THEN 0 ELSE OrElse(p.posts_used, 0)

\* const postsLimit = pack?.monthly_posts_limit || 30
postsLimit(p) == IF p = NULL THEN 30 ELSE OrElse(p.monthly_posts_limit, 30)

\* const remainingPosts = postsLimit - postsUsed
remainingPosts(p) == postsLimit(p) - postsUsed(p)

LimitReachedMessage == "Vous avez atteint votre limite mensuelle"

\* the line under the usage bar of the Dashboard
UsageMessage(p) ==
  IF remainingPosts(p) > 0 THEN "Il vous reste" ELSE LimitReachedMessage

\* the Dashboard shows its content
DashShown == mounted /\ route = "/dashboard" /\ RendersContent(user, company)

\* a restored session on the Dashboard, for every stored limit from 0 to MaxLimit
NextDashboard ==
  \/ GetSessionResolve
  \/ AuthNotify
  \/ \E c \in BagToSet(chains) : \E fails \in BOOLEAN : FetchUserResp(c, fails)
  \/ \E c \in BagToSet(chains) : \E fails \in BOOLEAN : FetchCompanyResp(c, fails)
  \/ \E c \in BagToSet(chains) : \E fails \in BOOLEAN : FetchPackResp(c, fails)
  \/ \E r \in {"/login", "/dashboard"} : Navigate(r)
  \/ \E c \in CompanyIds : PackExpire(c)

SpecDashboard == InitWith(0..MaxLimit, 0..MaxLimit) /\ [][NextDashboard]_vars

\* ------------------------------------------- sign-out during a load chain
\* a restored session that signs out while load chains are in flight; the
\* backend's session only ends by this sign-out
NextSignOutRace ==
  \/ GetSessionResolve
  \/ AuthNotify
  \/ \E c \in BagToSet(chains) : \E fails \in BOOLEAN : FetchUserResp(c, fails)
  \/ \E c \in BagToSet(chains) : \E fails \in BOOLEAN : FetchCompanyResp(c, fails)
  \/ \E c \in BagToSet(chains) : \E fails \in BOOLEAN : FetchPackResp(c, fails)
  \/ SignOutCall
  \/ \E ok \in BOOLEAN : SignOutResp(ok)
  \/ \E r \in {"/login", "/dashboard"} : Navigate(r)

SpecSignOutRace == Init /\ [][NextSignOutRace]_vars

\* ----------------------------------------------------------- the wizard
\* one restored session that goes through the three steps of the Post
\* Generator, types suggestions and generates, every backend call succeeding
NextWizard ==
  \/ GetSessionResolve
  \/ \E c \in BagToSet(chains) : FetchUserResp(c, FALSE)
  \/ \E c \in BagToSet(chains) : FetchCompanyResp(c, FALSE)
  \/ \E c \in BagToSet(chains) : FetchPackResp(c, FALSE)
  \/ \E r \in {"/dashboard", "/generate"} : Navigate(r)
  \/ \E p \in platforms \ {"facebook"} : SetPlatform(p)
  \/ \E f \in formats \ {"carousel"} : SetFormat(f)
  \/ Step1Continue
  \/ \E q \in tl : \E fails \in BOOLEAN : TemplatesResp(q, fails)
  \/ \E t \in TemplateRows : SelectTemplate(t)
  \/ Step2Back
  \/ Step2Continue
  \/ Step3Back
  \/ \E t \in {"", "promo"} : SetUserSuggestions(t)
  \/ HandleGenerate
  \/ \E ok \in BOOLEAN : WebhookResp(ok)
  \/ InsertResp(TRUE)
  \/ UpdateResp(TRUE)
  \/ resetGenerator

SpecWizard == Init /\ [][NextWizard]_vars

\* ================================================================ claims
EndNames == {"ChainEnd", "SignInResolve", "SignUpResolve", "ProfileSaved"}
Loaded   == {"pack", "noPack"}      \* the chain fetched the user and the company

\* C1: a handleGenerate call made while a pack is loaded whose posts_used has
\* reached monthly_posts_limit only raises the limit alert: no webhook call is
\* issued, no generated_post row and no pack update is written, and
\* generating, generatedPost and the wizard step stay as they were.
C1_QuotaRejectsLocally ==
  [][(lastAct'.name = "HandleGenerate" /\ pack # NULL
        /\ pack.posts_used >= pack.monthly_posts_limit)
      => /\ lastAct'.arg = "limitAlert"
         /\ gen' = gen /\ gen.pc = "idle"
         /\ dbPosts' = dbPosts /\ dbPack' = dbPack
         /\ UNCHANGED <<generating, generatedPost, currentStep>>]_vars

C1_Witness ==
  /\ lastAct.name = "HandleGenerate" /\ lastAct.arg = "limitAlert"
  /\ pack # NULL /\ pack.posts_used = pack.monthly_posts_limit
  /\ currentStep = 3 /\ gen.pc = "idle" /\ dbPosts = 0

\* C2: in a session whose generations all ran with a pack loaded and whose
\* counter updates were all accepted by the backend, the number of
\* generated_post rows created never exceeds monthly_posts_limit minus the
\* posts_used the session started with.
C2_QuotaBoundsPosts ==
  ~unmetered => dbPosts <= dbPack["c1"].monthly_posts_limit - usedAtStart

\* C3: when a generation ends with the webhook call, the insert and the pack
\* update all successful, the stored posts_used is one more than it was when
\* the generation started.
C3_CounterIncrementsByOne ==
  [][(lastAct'.name = "GenEnd" /\ lastAct'.arg = "success" /\ gen.pack # NULL)
      => dbPack'[gen.pack.company_id].posts_used = gen.storedBefore + 1]_vars

\* C4 (as claimed): whenever signIn resolves, so that Login goes on to
\* navigate('/dashboard'), user and company are both populated.
C4_SignInAlwaysPopulated ==
  lastAct.name = "SignInResolve" => user # NULL /\ company # NULL

\* C4 (amended): when signIn resolves after its load chain fetched the user
\* and the company without error, and nothing cleared the context while the
\* chain ran, user and company are populated, the chain has returned and the
\* Dashboard is shown.
C4_SignInPopulatedAfterLoad ==
  (lastAct.name = "SignInResolve" /\ lastAct.arg \in Loaded /\ ~lastAct.cleared)
    => /\ user # NULL /\ company # NULL
       /\ ~InFlight("signIn")
       /\ route = "/dashboard"

C4_Witness ==
  /\ lastAct.name = "SignInResolve" /\ lastAct.arg = "pack" /\ ~lastAct.cleared
  /\ user # NULL /\ company # NULL /\ pack # NULL
  /\ route = "/dashboard" /\ session = "u1"

\* C5: when the backend rejects the credentials, signIn throws the backend's
\* error: no load chain is started, user, company and pack are unchanged, the
\* Login screen shows the error's message (or its default text when the
\* message is empty), stays on its route and leaves the remember-me storage
\* alone.
C5_RejectedSignIn ==
  [][lastAct'.name = "SignInReject"
      => /\ UNCHANGED <<user, company, pack, loading, session>>
         /\ chains' = chains
         /\ route' = route
         /\ localStorage' = localStorage
         /\ si.attached =>
              loginError' = IF lastAct'.arg # "" THEN lastAct'.arg
                            ELSE "Erreur de connexion"]_vars

C5_Witness ==
  /\ lastAct.name = "SignInReject" /\ lastAct.arg = "Invalid login credentials"
  /\ loginError = "Invalid login credentials"
  /\ route = "/login"
  /\ localStorage.rememberMe = "true"
  /\ user # NULL

\* C6: when a load chain ends at the pack query and the company has no pack
\* row of status 'active', the context holds the user and the company, and its
\* pack is null.
C6_NoActivePackLeavesPackEmpty ==
  (/\ lastAct.name \in EndNames /\ lastAct.arg = "noPack"
   /\ (company = NULL \/ QueryPack(company.id, FALSE).error))
    => user # NULL /\ company # NULL /\ pack = NULL

\* C7 (as claimed): the second of two refreshData calls in succession, with no
\* backend change from the first call on, leaves the snapshot the first left;
\* refreshData with no user loaded starts no chain and changes nothing.
C7_RefreshIdempotent ==
  [][/\ mon'.st = "done2" => Snapshot' = mon'.snap
     /\ (lastAct'.name = "RefreshData" /\ user = NULL)
          => UNCHANGED <<ctxVars, dbVars, flowVars>>]_vars

\* C7 (amended): the same, for a second call whose load chain gets as far as
\* the first one's did (the same queries answer and the same query fails).
C7_RefreshIdempotentSameOutcome ==
  [][/\ (mon'.st = "done2" /\ mon'.same) => Snapshot' = mon'.snap
     /\ (lastAct'.name = "RefreshData" /\ user = NULL)
          => UNCHANGED <<ctxVars, dbVars, flowVars>>]_vars

C7_Witness ==
  /\ mon.st = "done2" /\ mon.same /\ mon.out = "pack"
  /\ Snapshot = mon.snap
  /\ user # NULL /\ company # NULL /\ pack # NULL

\* C8: when signOut returns, user, company and pack are null, whether the
\* backend's sign-out succeeded or failed.
C8_SignOutClears ==
  (lastAct.name = "SignOutResp" /\ lastAct.arg \in {"ok", "error"})
    => user = NULL /\ company = NULL /\ pack = NULL

C8_Witness ==
  /\ lastAct.name = "SignOutResp" /\ lastAct.arg = "error"
  /\ session # NoSession
  /\ user = NULL /\ company = NULL /\ pack = NULL

\* C9: an auth-state notification that carries a session starts one load chain
\* for the session's user id and changes nothing else of the context; one
\* that carries no session sets user, company and pack to null and loading to
\* false, and starts no chain.
C9_NotificationHandled ==
  [][lastAct'.name = "AuthNotify"
      => IF session # NoSession
           THEN /\ chains' = chains (+) SetToBag({Chain("user", session, "notify")})
                /\ UNCHANGED <<user, company, pack, loading>>
           ELSE /\ user' = NULL /\ company' = NULL /\ pack' = NULL
                /\ loading' = FALSE
                /\ chains' = chains]_vars

C9_Witness ==
  /\ lastAct.name = "AuthNotify" /\ session = NoSession
  /\ InFlight("signIn")
  /\ user = NULL /\ company = NULL /\ pack = NULL /\ ~loading

\* C10: loading is true as long as the load chain started at startup is in
\* flight; a startup that finds no session sets loading to false.
C10_LoadingUntilStartupDone ==
  /\ InFlight("startup") => loading
  /\ (lastAct.name = "GetSessionResolve" /\ lastAct.arg = "noSession") => ~loading

\* the load chains that a step starts or moves on come in the order user,
\* company, pack: a chain awaits the company query only after its user query
\* answered with a row, and the pack query only after its company query did
ChainOrder ==
  \A d \in BagToSet(chains') :
    CopiesIn(d, chains') > CopiesIn(d, chains) =>
      \/ d.pc = "user"
      \/ /\ d.pc = "company"
         /\ CopiesIn(Chain("user", d.uid, d.origin), chains)
              > CopiesIn(Chain("user", d.uid, d.origin), chains')
         /\ user' # NULL /\ user'.id = d.uid
      \/ /\ d.pc = "pack"
         /\ CopiesIn(Chain("company", d.uid, d.origin), chains)
              > CopiesIn(Chain("company", d.uid, d.origin), chains')
         /\ company' # NULL /\ company'.id = dbUser[d.uid].company_id

\* C11 (as claimed): a load chain whose user fetch succeeded and whose company
\* fetch failed ends with User populated, Company empty and loading false.
C11_CompanyFailureLeavesCompanyEmpty ==
  (lastAct.name \in EndNames /\ lastAct.arg = "companyError")
    => user # NULL /\ company = NULL /\ ~loading

\* C11 (amended): the steps of a chain run in the order user, company, pack;
\* a failed user or company fetch ends the chain (it returns to its caller,
\* no later query is issued), sets loading to false and leaves user, company
\* and pack as they were before the failing answer, so that a company that
\* was empty is still empty and a user that was loaded is still loaded.
C11_FailureKeepsWhatWasLoaded ==
  [][/\ ChainOrder
     /\ (lastAct'.name \in EndNames /\ lastAct'.arg \in {"userError", "companyError"})
          => /\ Snapshot' = Snapshot
             /\ ~loading'
             /\ BagCardinality(chains') = BagCardinality(chains) - 1
             /\ \A d \in BagToSet(chains') : CopiesIn(d, chains') <= CopiesIn(d, chains)]_vars

C11_Witness ==
  /\ lastAct.name \in EndNames /\ lastAct.arg = "companyError"
  /\ user # NULL /\ company = NULL /\ pack = NULL
  /\ ~loading /\ chains = EmptyBag

\* a step inserts a company row / starts the load chain of signUp
CompanyInserted == \E c \in CompanyIds : dbCompany[c] = NULL /\ dbCompany'[c] # NULL
SignUpChainStarted ==
  \E d \in BagToSet(chains') :
    d.origin = "signUp" /\ d.pc = "user" /\ CopiesIn(d, chains') > CopiesIn(d, chains)
RowsKept == \A c \in CompanyIds : dbCompany[c] # NULL => dbCompany'[c] = dbCompany[c]

\* C12: signUp creates the auth identity, then inserts the company, then the
\* user, then starts its load chain, each only after the step before
\* succeeded.  When the identity step fails or returns no user, no row is
\* inserted; when the company or the user insert fails, signUp throws to its
\* caller, no later step runs, and the identity (and the company row, if it
\* was created) stay as they are.
C12_SignUpOrderAndNoRollback ==
  [][/\ dbAuth' # dbAuth
          => /\ su.pc = "auth" /\ dbAuth' = dbAuth \cup {su.email}
             /\ UNCHANGED <<dbCompany, dbUser, chains>>
     /\ CompanyInserted
          => /\ su.pc = "company" /\ su.uid \in dbAuth
             /\ UNCHANGED <<dbAuth, dbUser, chains>>
     /\ dbUser' # dbUser
          => /\ su.pc = "user" /\ su.uid \in dbAuth /\ dbCompany[su.cid] # NULL
             /\ dbUser' = [dbUser EXCEPT ![su.uid] = NewUserRow(su.uid, su.cid)]
             /\ UNCHANGED <<dbAuth, dbCompany>>
     /\ SignUpChainStarted
          => su.pc = "user" /\ dbUser'[su.uid] = NewUserRow(su.uid, su.cid)
     /\ lastAct'.name = "SignUpReject"
          => /\ su'.pc = "idle" /\ chains' = chains
             /\ UNCHANGED <<dbAuth, dbUser>>
             /\ RowsKept
             /\ lastAct'.arg \in {"authError", "noUser"}
                  => su.pc = "auth" /\ dbCompany' = dbCompany
             /\ lastAct'.arg = "companyError"
                  => su.pc = "company" /\ su.uid \in dbAuth'
             /\ lastAct'.arg = "userError"
                  => /\ su.pc = "user" /\ su.uid \in dbAuth'
                     /\ dbCompany' = dbCompany /\ dbCompany'[su.cid] # NULL]_vars

C12_Witness ==
  /\ lastAct.name = "SignUpReject" /\ lastAct.arg = "userError"
  /\ "u2" \in dbAuth /\ dbCompany["c2"] # NULL /\ dbUser["u2"] = NULL
  /\ su.pc = "idle" /\ ~InFlight("signUp")

\* C13: when a signUp whose four steps all succeeded resolves (its load chain
\* fetched the user and the company and found no pack), one company row with
\* the given name and empty profile fields and one user row referencing it
\* and carrying the identity's id exist, and the pack of the context is empty.
C13_SignUpLeavesEmptyPack ==
  (lastAct.name = "SignUpResolve" /\ lastAct.arg = "noPack")
    => /\ dbCompany["c2"] \in {RowOf("c2", EmptyProfile(n)) : n \in CompanyNames}
       /\ dbUser["u2"] = NewUserRow("u2", "c2")
       /\ "u2" \in dbAuth
       /\ pack = NULL

\* C14: an accepted generation attempt issues its webhook call once, when it
\* is accepted, and never again; a generated_post row is inserted only after
\* the webhook answered with a 2xx status, and the pack is written only after
\* that insert succeeded; an attempt that ends as a success has inserted
\* exactly one row, one that is rejected or ends in the failure alert none;
\* no step removes a generated_post row.
C14_GenerationStepOrder ==
  [][/\ (gen'.pc = "webhook" /\ gen.pc # "webhook")
          => /\ gen.pc = "idle"
             /\ lastAct'.name = "HandleGenerate" /\ lastAct'.arg = "webhook"
     /\ dbPosts' # dbPosts
          => /\ gen.pc = "insert" /\ gen.resp = "ok" /\ gen.inserted = 0
             /\ dbPosts' = dbPosts + 1
     /\ dbPack' # dbPack
          => gen.pc = "update" /\ gen.inserted = 1
     /\ (lastAct'.name = "GenEnd" /\ lastAct'.arg \in {"success", "successUpdateFailed"})
          => gen.inserted + (dbPosts' - dbPosts) = 1
     /\ (lastAct'.name = "GenEnd" /\ lastAct'.arg = "failureAlert")
          => gen.inserted = 0 /\ dbPosts' = dbPosts
     /\ (lastAct'.name = "HandleGenerate" /\ lastAct'.arg \in {"return", "limitAlert"})
          => dbPosts' = dbPosts /\ gen' = gen /\ gen.pc = "idle"
     /\ dbPosts' >= dbPosts]_vars

C14_Witness ==
  /\ lastAct.name = "GenEnd" /\ lastAct.arg = "success"
  /\ dbPosts = 1 /\ generatedPost = PostData /\ gen = IdleGen
  /\ dbPack["c1"].posts_used = usedAtStart + 1

\* C15: a generation attempt in which the webhook call, the generated_post
\* insert or the pack update failed ends with the failure alert and without
\* the generated post on display.
C15_FailureSurfacesNotice ==
  (lastAct.name = "GenEnd" /\ lastAct.arg \in {"failureAlert", "successUpdateFailed"})
    => lastAct.arg = "failureAlert" /\ generatedPost = NULL

\* C16: no step lowers the posts_used of a stored pack, whatever the sessions
\* of the company do and however their steps interleave.
C16_PostsUsedNeverDecreases ==
  [][\A c \in CompanyIds :
       dbPack[c] # NULL => dbPack'[c].posts_used >= dbPack[c].posts_used]_vars

\* C17: when a loadTemplates call completes while step 2 is shown,
\* loadingTemplates is false; if the query answered, the list holds every
\* active template that carries both the platform and the format chosen on
\* the screen and no template that lacks one of them; if the query failed,
\* the list is empty.
C17_TemplatesMatchChoice ==
  (lastAct.name = "TemplatesResp" /\ currentStep = 2)
    => /\ ~loadingTemplates
       /\ lastAct.arg = "ok"
            => /\ \A t \in TemplateRows :
                    (t.is_active /\ platform \in t.platforms /\ format \in t.formats)
                      => t \in templates
               /\ \A t \in templates :
                    platform \in t.platforms /\ format \in t.formats
       /\ lastAct.arg = "error" => templates = {}

\* no name twice in the list
NoDup(svcs) == \A i, j \in 1..Len(svcs) : svcs[i] = svcs[j] => i = j

\* a non-empty name with no blank at either end
Trimmed(x) == x # <<>> /\ Head(x) # Blank /\ x[Len(x)] # Blank

ServicesOk(svcs) == NoDup(svcs) /\ \A i \in 1..Len(svcs) : Trimmed(svcs[i])

\* C18: the services of the Profile form, once duplicate-free with trimmed
\* non-empty names, stay so; handleAddService leaves the list as it is or
\* appends the trimmed input at its end, handleRemoveService takes one name out
\* and keeps the order of the others; and when the refreshData of a save
\* reloads the Company, the Company and the re-initialised form hold the
\* submitted list, in its order and with no duplicate.
C18_ServicesRoundTrip ==
  [][ /\ ServicesOk(form.services) => ServicesOk(form'.services)
      /\ lastAct'.name = "handleAddService" =>
           \/ form'.services = form.services
           \/ /\ form'.services = Append(form.services, trim(newService))
              /\ ~Includes(form.services, trim(newService))
      /\ lastAct'.name = "handleRemoveService" =>
           LET kept == Range(form'.services)
           IN  /\ Len(form'.services) = Len(form.services) - 1
               /\ form'.services = SelectSeq(form.services, LAMBDA x : x \in kept)
      /\ lastAct'.name = "ProfileReloaded" =>
           /\ company'.services = pf.payload.services
           /\ ServicesOk(company'.services)
           /\ route = "/profile" => form'.services = pf.payload.services
    ]_vars

\* the list Massage, Facial was saved and the reload has brought it back to the form
C18_Witness ==
  /\ lastAct.name = "ProfileReloaded"
  /\ route = "/profile"
  /\ company.services = <<Massage, Facial>>
  /\ form.services = <<Massage, Facial>>

\* the columns of a company row that the Profile form edits
MutableFields == {"name", "business_sector", "services", "target_audience", "brand_colors",
                  "logo_url", "tone_of_voice", "visual_style"}

SaveError   == [type |-> "error", text |-> "Erreur lors de la mise a jour"]
SaveSuccess == [type |-> "success", text |-> "Profil mis a jour"]

C20_ScreenGating ==
  [][ /\ mounted' /\ user' = NULL => route' = "/login"
      /\ mounted' /\ route' \in GatedRoutes =>
           /\ Renders(route', user', company') = "content" =>
                user' # NULL /\ company' # NULL
           /\ user' # NULL /\ company' = NULL =>
                Renders(route', user', company') \in {"Chargement...", "nothing"}
      /\ platform' \notin {platform, ""} =>
           route = "/generate" /\ user # NULL /\ company # NULL
      /\ newService' \notin {newService, <<>>} =>
           route = "/profile" /\ user # NULL /\ company # NULL
      /\ so = "idle" /\ so' # "idle" => user # NULL /\ company # NULL
    ]_vars

\* a gated screen shows its placeholder for good: the user is loaded, the
\* company fetch failed and nothing is in flight
C20_Witness ==
  /\ mounted /\ route = "/dashboard"
  /\ user # NULL /\ company = NULL
  /\ ~loading /\ chains = EmptyBag
  /\ Renders(route, user, company) = "Chargement..."

\* C21: whenever the Dashboard shows a loaded pack with monthly_posts_limit >= 0
\* and posts_used >= monthly_posts_limit, its usage line is the limit-reached
\* message and the remaining count it shows is monthly_posts_limit -
\* posts_used, which is not positive.
C21_DashboardSurfacesLimit ==
  (DashShown /\ pack # NULL /\ pack.monthly_posts_limit >= 0
     /\ pack.posts_used >= pack.monthly_posts_limit)
  => /\ UsageMessage(pack) = LimitReachedMessage
     /\ remainingPosts(pack) = pack.monthly_posts_limit - pack.posts_used
     /\ remainingPosts(pack) <= 0

\* C22: the provider holds its subscription exactly while it is mounted, and
\* once it is unmounted no step, an auth-state event of the backend included,
\* starts a load chain or changes user, company or pack.
C22_NoNotificationAfterUnmount ==
  [][ /\ Subscribed' = mounted'
      /\ ~mounted => /\ UNCHANGED <<user, company, pack, chains>>
                     /\ ~mounted'
    ]_vars

\* the backend emitted an auth-state event, with a session, after the unmount
C22_Witness ==
  /\ ~mounted /\ session # NoSession
  /\ lastAct.name = "AuthEvent" /\ lastAct.arg = "unheard"
  /\ user = NULL /\ chains = EmptyBag

\* both sessions held a pack snapshot with posts_used = monthly_posts_limit - 1
\* (the stored value at the start), this session has completed a generation
\* and shows its post, and the other session has just completed one: two
\* generated_post rows have been inserted
RaceDone ==
  /\ usedAtStart = MaxLimit - 1
  /\ pack # NULL /\ pack.posts_used = MaxLimit - 1
  /\ other # NULL /\ other.posts_used = MaxLimit - 1
  /\ lastAct.name = "OtherGenerate"
  /\ generatedPost # NULL /\ gen.pc = "idle"
  /\ dbPosts = 2

\* C23: when two sessions of the company that both hold a pack snapshot with
\* posts_used = monthly_posts_limit - 1 have both completed a generation, the
\* stored posts_used has risen by one only and is equal to the limit, while
\* the posts generated in the month, the two new rows included, exceed it.
C23_QuotaRaceLosesUpdate ==
  RaceDone =>
    /\ dbPack["c1"].posts_used = usedAtStart + 1
    /\ dbPack["c1"].posts_used = dbPack["c1"].monthly_posts_limit
    /\ usedAtStart + dbPosts > dbPack["c1"].monthly_posts_limit

\* the race has happened
C23_Witness == RaceDone /\ dbPack["c1"].posts_used = MaxLimit

\* signOut has invalidated the session and has returned
SignedOut == session = NoSession /\ so = "idle"

\* C24: a load chain that is still in flight when signOut has invalidated the
\* session and returned is not discarded: the answer of its user query is
\* written to user and the pack its pack query found is written to pack, over
\* what signOut cleared.
C24_SignOutDoesNotStopChain ==
  [][ SignedOut =>
        /\ \A d \in BagToSet(chains) :
             (d.pc = "user" /\ CopiesIn(Chain("company", d.uid, d.origin), chains')
                                 > CopiesIn(Chain("company", d.uid, d.origin), chains))
               => user' = dbUser[d.uid]
        /\ (lastAct'.name \in EndNames /\ lastAct'.arg = "pack")
             => pack' # NULL /\ pack' = dbPack[pack'.company_id]
    ]_vars

\* signOut has returned, the session is gone, no chain is left and the
\* context holds the user, the company and the pack again
C24_Witness ==
  /\ SignedOut /\ chains = EmptyBag
  /\ lastAct.name = "ChainEnd" /\ lastAct.arg = "pack"
  /\ user # NULL /\ company # NULL /\ pack # NULL

\* C25: when the pack update of a generation fails after its generated_post
\* insert succeeded, the attempt ends there: the inserted row stays, the
\* stored pack is as it was before the attempt (posts_used one short of the
\* rows generated), and no delete and no further call follows; no step ever
\* removes a generated_post row.
C25_NoCompensationAfterInsert ==
  [][ /\ dbPosts' >= dbPosts
      /\ (lastAct'.name = "GenEnd" /\ lastAct'.arg = "successUpdateFailed") =>
           /\ gen.pc = "update" /\ gen.inserted = 1
           /\ dbPosts' = dbPosts
           /\ dbPack' = dbPack
           /\ dbPack'[gen.pack.company_id].posts_used = gen.storedBefore
           /\ gen' = IdleGen
    ]_vars

\* a generation has ended that way: one row inserted, the counter not raised
C25_Witness ==
  /\ lastAct.name = "GenEnd" /\ lastAct.arg = "successUpdateFailed"
  /\ dbPosts = 1
  /\ dbPack["c1"].posts_used = usedAtStart
  /\ gen = IdleGen

\* C26: in every state with no load chain in flight, a company in the context
\* comes with a user whose company_id is its id, and a pack in the context
\* comes with a company whose id is its company_id and is the row the backend
\* holds as that company's active pack.
C26_SessionConsistent ==
  chains = EmptyBag =>
    /\ company # NULL => user # NULL /\ company.id = user.company_id
    /\ pack # NULL =>
         /\ company # NULL /\ pack.company_id = company.id
         /\ dbPack[company.id] # NULL
         /\ dbPack[company.id].id = pack.id
         /\ dbPack[company.id].status = "active"

\* C27: whenever handleGenerate has just issued the webhook call, the
\* selected template carries the platform and the format that are chosen.
C27_TemplateFitsSelection ==
  (lastAct.name = "HandleGenerate" /\ lastAct.arg = "webhook")
    => /\ selectedTemplate # NULL
       /\ platform \in selectedTemplate.platforms
       /\ format \in selectedTemplate.formats

\* C28: a gated screen that is mounted by a client whose session is valid
\* does not redirect to /login while the context's loading flag is true.
C28_NoRedirectWhileLoading ==
  (lastAct.name = "Redirect" /\ session # NoSession) => ~loading

\* an attempt of the screen on display is in flight
AttemptInFlight == gen.pc # "idle" /\ gen.attached

\* C29: generating is true exactly while an attempt of the screen is in
\* flight; no webhook call is issued in a state where generating is true; an
\* accepted start sets generating, and every end of an attempt of the screen,
\* success or failure, leaves generating false.
C29_OneGenerationInFlight ==
  [][ /\ generating' <=> AttemptInFlight'
      /\ (lastAct'.name = "HandleGenerate" /\ lastAct'.arg = "webhook") =>
           ~generating /\ ~AttemptInFlight /\ generating'
      /\ (lastAct'.name = "GenEnd" /\ gen.attached) => generating /\ ~generating'
    ]_vars

\* an attempt of the screen has just failed and generating is false again
C29_Witness ==
  /\ lastAct.name = "GenEnd" /\ lastAct.arg = "failureAlert"
  /\ route = "/generate" /\ currentStep = 3
  /\ ~generating /\ gen = IdleGen /\ generatedPost = NULL

\* C30: at step 2 and 3 of the wizard the platform and the format are
\* chosen, at step 3 a template is selected, a webhook call is only issued
\* with the company, the platform, the format and the template set, and
\* resetGenerator leaves step 1 with the platform, the format, the template,
\* the suggestions and the generated post cleared.
C30_WizardInvariant ==
  [][ /\ currentStep' >= 2 => platform' # "" /\ format' # ""
      /\ currentStep' = 3 => selectedTemplate' # NULL
      /\ (lastAct'.name = "HandleGenerate" /\ lastAct'.arg = "webhook") =>
           /\ company # NULL /\ gen'.cid = company.id
           /\ platform # "" /\ format # "" /\ selectedTemplate # NULL
      /\ lastAct'.name = "resetGenerator" =>
           /\ currentStep' = 1
           /\ platform' = "" /\ format' = ""
           /\ selectedTemplate' = NULL
           /\ userSuggestions' = ""
           /\ generatedPost' = NULL
    ]_vars

\* a generation made with suggestions was shown and the wizard was reset
C30_Witness ==
  /\ lastAct.name = "resetGenerator"
  /\ route = "/generate" /\ dbPosts = 1
  /\ currentStep = 1 /\ platform = "" /\ format = ""
  /\ selectedTemplate = NULL /\ userSuggestions = "" /\ generatedPost = NULL

====
